---- MODULE Spec2Model ----
(***************************************************************************)
(* A state-machine model of the modular ascent controller of launch.py     *)
(* (ModularAscentControl and its five controllers).  The file holds the    *)
(* two sides of an unresolved merge; the model follows the HEAD side       *)
(* (launch.py lines 2-539).                                                *)
(*                                                                         *)
(* One action models one statement group of the run loop to_orbit:         *)
(* the telemetry report, each controller's process(), update_status()      *)
(* and the pacing sleep.  The vehicle (kRPC) is the environment: its       *)
(* persistent state (throttle, maneuver nodes, stage, warp, SAS) is part   *)
(* of the state; instantaneous readings (altitude, speed, apsides, mass,   *)
(* isp, available thrust, the decouple stage's resources) are drawn from   *)
(* small sets where the code reads them.                                   *)
(*                                                                         *)
(* Time is kept relative: a node stores time_to (= node.ut - ut), which    *)
(* falls as time passes, so  ut + x >= node.ut  reads  x >= time_to.       *)
(* Throttle is kept in percent (100 is the code's 1.0).                    *)
(***************************************************************************)
EXTENDS Integers, Sequences, FiniteSets, TLC

VARIABLES
    pc,            \* position of the program: init, configured, a place of the loop,
                   \* exited, crashed (an exception left to_orbit) or rejected
    status,        \* ModularAscentControl.status
    cstatus,       \* role -> that controller object's status
    ctrl,          \* role -> class of the controller object bound to the role
    regError,      \* outcome of the last register_controller call
    throttle,      \* vessel.control.throttle, percent
    nodes,         \* vessel.control.nodes, a sequence of [time_to, delta_v]
    stage,         \* vessel.control.current_stage
    physics_warp,  \* space_center.physics_warp_factor
    warped,        \* whether warp_to has been requested in the current tick
    sas,           \* vessel.auto_pilot.sas
    sas_mode,      \* vessel.auto_pilot.sas_mode
    autopilot,     \* whether vessel.auto_pilot is engaged
    statusLog,     \* the strings handed to display_status, in order
    fault,         \* the exception that ended the loop, "none" while there is none
    faultPlace,    \* the place of the loop that raised it
    extRemoved,    \* whether the nodes were removed from outside the program
    observed,      \* status -> roles whose process() ran while holding that status
    order,         \* the roles whose process() ran in the current tick, in order
    acts,          \* activate_next_stage calls made by the last staging process()
    stagedFrom,    \* [stage, res] read by the last staging process(), or none
    seen,          \* the vehicle readings the last statement took, -1: not read
    initNodes,     \* number of maneuver nodes when the program started
    solar,         \* whether the vessel's solar panels are deployed
    call           \* the last call made from outside the loop: [fn, args, out]

vars == <<pc, status, cstatus, ctrl, regError, throttle, nodes, stage,
          physics_warp, warped, sas, sas_mode, autopilot, statusLog, fault,
          faultPlace, extRemoved, observed, order, acts, stagedFrom, seen, initNodes, solar, call>>

----------------------------------------------------------------------------
(* Launch parameters, launch.py:11-23 *)

ORBIT_ALT == 100000
MAX_AUTO_STAGE == 0
MAX_PHYSICS_WARP == 3
DEPLOY_SOLAR == TRUE
GRAV_TURN_FINISH == 55000
INCLINATION == 0
\* G = 9.82, times 100
G100 == 982

(* Bounds of the model *)
MaxStage == 3
\* how far past the node's time the relative clock is still counted
MaxLate == 0

(* Values the environment can present *)
ThrottleVals == {0, 100}
ThrustVals == {0, 50000, 200000}
MassVals == {10000}
IspVals == {320}
TtaVals == {80}
DtVals == {20}
AltVals == {0, 70000, 80000}
SpeedVals == {0, 100}
ApoVals == {95000, 110000, 120000}
PeriVals == {90000, 91000}
\* orbit.apoapsis and orbit.semi_major_axis, from the body's centre, in km
ApoapsisVals == {696}
SmaVals == {498, 560}
\* orbit.body.gravitational_parameter, read at launch.py:390: Kerbin's
\* 3.5316e12 m^3/s^2, in 10^6 m^3/s^2 (MU / km gives 1000 m^2/s^2)
MU == 3531600
\* orbit.body.atmosphere_depth, read at launch.py:518
AtmosphereDepth == 70000

----------------------------------------------------------------------------
(* class Status(Enum), launch.py:44-53 *)

Status == {"IDLE", "PRELAUNCH", "LAUNCH", "LIFTOFF", "PITCH", "COAST",
           "CIRCULARIZE", "FINALIZE", "DONE"}

StatusValue(s) ==
    CASE s = "IDLE" -> 0
      [] s = "PRELAUNCH" -> 10
      [] s = "LAUNCH" -> 20
      [] s = "LIFTOFF" -> 30
      [] s = "PITCH" -> 40
      [] s = "COAST" -> 50
      [] s = "CIRCULARIZE" -> 60
      [] s = "FINALIZE" -> 70
      [] s = "DONE" -> 80

(* class FuelTypes(Enum), launch.py:55-57, in definition order *)
FuelTypes == <<"LiquidFuel", "SolidFuel">>

FuelNames == {FuelTypes[i] : i \in 1..Len(FuelTypes)}

(* ModularAscentControl.controllers, launch.py:128-129 *)
controllers == <<"guidance", "throttle", "staging", "warp", "finalize">>

Roles == {controllers[i] : i \in 1..Len(controllers)}

(* The Controller classes of the file *)
ControllerClasses == {"Controller", "GuidanceController", "ThrottleController",
                      "AnnoyingThrottle", "StagingController", "WarpController",
                      "FinalizeController"}

(* What a caller hands to register_controller: a role or another name; the
   base class, a second guidance controller, the throttle of main's
   registration (launch.py:37), or a class that is not a Controller *)
NameArgs == Roles \cup {"autopilot"}
ClassArgs == {"Controller", "GuidanceController", "AnnoyingThrottle", "Display"}

(* The controllers __init__ binds, launch.py:130-134 *)
DefaultControllers ==
    [r \in Roles |->
        CASE r = "guidance" -> "GuidanceController"
          [] r = "throttle" -> "ThrottleController"
          [] r = "staging" -> "StagingController"
          [] r = "warp" -> "WarpController"
          [] r = "finalize" -> "FinalizeController"]

(* A stage's resources: per fuel its capacity and amount, as the two tests
   max > 0 and amount > 0 see them *)
FuelStates == {[max |-> 0, amount |-> 0], [max |-> 1, amount |-> 0],
               [max |-> 1, amount |-> 1]}

ResStates == [FuelNames -> FuelStates]

NoStaging == [stage |-> -1, res |-> [f \in FuelNames |-> [max |-> 0, amount |-> 0]]]

TickPlaces == {"telemetry", "update", "sleep"} \cup Roles

(* The readings a statement can take of the vehicle; a field is -1 when the
   statement did not read it.  bt is the burn time calc_burn_time returned;
   apoapsis, sma and tta are the orbit create_circularize_node read; pitch (in
   thousandths of a degree) and heading are the targets pitch() set, and
   warp_to the time from now handed to warp_to, where one was. *)
NoReadings == [alt |-> -1, speed |-> -1, apo |-> -1, peri |-> -1, bt |-> -1,
               apoapsis |-> -1, sma |-> -1, tta |-> -1,
               pitch |-> -1, heading |-> -1, warp_to |-> -1]

(* What a call leaves: a value returned or an exception raised *)
Pending == [done |-> FALSE, val |-> 0, err |-> "none"]

Returned(v) == [done |-> TRUE, val |-> v, err |-> "none"]

Raised(e) == [done |-> TRUE, val |-> 0, err |-> e]

NoCall == [fn |-> "none", args |-> <<>>, out |-> Pending]

----------------------------------------------------------------------------
(* Pure computations *)

Max(a, b) == IF a >= b THEN a ELSE b

Last(q) == q[Len(q)]

(* math.exp(x) in thousandths, for x >= 0 given in thousandths: the power
   series summed until its terms vanish *)
RECURSIVE ExpSeries(_, _, _, _)
ExpSeries(xK, k, term, acc) ==
    IF term = 0 \/ k > 12 THEN acc
    ELSE ExpSeries(xK, k + 1, (term * xK) \div (k * 1000), acc + term)

ExpK(xK) == ExpSeries(xK, 1, 1000, 0)

(* math.sqrt of a natural number, rounded down (Newton's iteration from above) *)
RECURSIVE SqrtFrom(_, _)
SqrtFrom(n, x) ==
    LET y == (x + n \div x) \div 2
    IN  IF y >= x THEN x ELSE SqrtFrom(n, y)

Sqrt(n) == IF n < 4 THEN (IF n <= 0 THEN 0 ELSE 1) ELSE SqrtFrom(n, n \div 2)

(* create_circularize_node with v1 and v2 exchanged *)
circularize_dv_swapped(grav_param, apo, sma) ==
    LET v1 == Sqrt((((2 * grav_param) \div apo) - (grav_param \div sma)) * 1000)
        v2 == Sqrt((((2 * grav_param) \div apo) - (grav_param \div apo)) * 1000)
    IN  v1 - v2

(* create_circularize_node, launch.py:390-395: the prograde delta-v in m/s,
   for grav_param in 10^6 m^3/s^2 and the radii apo and sma in km *)
circularize_dv(grav_param, apo, sma) ==
    LET v1 == Sqrt((((2 * grav_param) \div apo) - (grav_param \div sma)) * 1000)
        v2 == Sqrt((((2 * grav_param) \div apo) - (grav_param \div apo)) * 1000)
    IN  v2 - v1

(* inc_to_heading without the wrap of a negative value *)
inc_to_heading_nowrap(inc) ==
    IF inc > 180 \/ inc < -180 THEN 90
    ELSE IF inc >= 0 THEN 90 - inc ELSE 0 - (inc - 90)

(* inc_to_heading that adds a negative inclination to 90 *)
inc_to_heading_plus(inc) ==
    IF inc > 180 \/ inc < -180 THEN 90
    ELSE LET value == IF inc >= 0 THEN 90 - inc ELSE 90 + inc
         IN  IF value < 0 THEN value + 360 ELSE value

(* GuidanceController.inc_to_heading, launch.py:358-373 *)
inc_to_heading(inc) ==
    IF inc > 180 \/ inc < -180 THEN 90
    ELSE LET value == IF inc >= 0 THEN 90 - inc ELSE 0 - (inc - 90)
         IN  IF value < 0 THEN value + 360 ELSE value

(* pitch() with the sign of the easing term lost *)
target_pitch_sign(alt) ==
    LET progress == (alt * 1000) \div GRAV_TURN_FINISH
    IN  90000 - (90 * progress * (progress - 2000)) \div 1000

(* GuidanceController.pitch, launch.py:316-317: the target pitch in
   thousandths of a degree at the mean altitude alt, progress in thousandths *)
target_pitch(alt) ==
    LET progress == (alt * 1000) \div GRAV_TURN_FINISH
    IN  90000 - ((0 - 90) * progress * (progress - 2000)) \div 1000

(* warp_to's argument without the margin *)
warp_target_no_margin(time_to, bt) == time_to - (bt \div 2)

(* WarpController.process, launch.py:499: the time handed to warp_to, from now *)
warp_target(time_to, bt) == time_to - (bt \div 2) - 5

(* calc_burn_time's arithmetic, launch.py:256 (and 428, 511), in whole seconds:
   (m - (m / exp(dv / (isp * G)))) / (F / (isp * G)).
   isp = 0 or F = 0 divides by zero. *)
BurnTimeDefined(isp, F) == isp # 0 /\ F # 0

BurnTime(m, isp, dv, F) ==
    LET xK == (dv * 100000) \div (isp * G100)
        burned == m - ((m * 1000) \div ExpK(xK))
    IN  ((((burned * isp) \div 100) * G100) \div F)

(* StagingController.carries_fuel and has_fuel, launch.py:469-485 *)
carries_fuel(r, fueltype) == r[fueltype].max > 0

has_fuel(r, fueltype) == r[fueltype].amount > 0

(* The loop of StagingController.process, launch.py:451-459, from the i-th
   fuel type on: the number of activate_next_stage calls it makes *)
RECURSIVE StagingLoop(_, _, _)
StagingLoop(i, r, interstage) ==
    IF i > Len(FuelTypes)
    THEN (IF interstage THEN 1 ELSE 0)
    ELSE IF carries_fuel(r, FuelTypes[i])
         THEN (IF ~has_fuel(r, FuelTypes[i])
               THEN 1
               ELSE StagingLoop(i + 1, r, FALSE))
         ELSE StagingLoop(i + 1, r, interstage)

(* The same loop without the return after an activation *)
RECURSIVE StagingLoopNoReturn(_, _, _)
StagingLoopNoReturn(i, r, interstage) ==
    IF i > Len(FuelTypes)
    THEN (IF interstage THEN 1 ELSE 0)
    ELSE IF carries_fuel(r, FuelTypes[i])
         THEN (IF ~has_fuel(r, FuelTypes[i]) THEN 1 ELSE 0)
              + StagingLoopNoReturn(i + 1, r, FALSE)
         ELSE StagingLoopNoReturn(i + 1, r, interstage)

StagingActivationsNoReturn(st, r) ==
    IF st <= MAX_AUTO_STAGE THEN 0 ELSE StagingLoopNoReturn(1, r, TRUE)

(* The same process with the floor test off by one *)
StagingActivationsBelowFloor(st, r) ==
    IF st < MAX_AUTO_STAGE THEN 0 ELSE StagingLoop(1, r, TRUE)

(* StagingController.process, launch.py:443-459: the number of stage
   activations of one call, given the current stage and the resources of the
   decouple stage *)
StagingActivations(st, r) ==
    IF st <= MAX_AUTO_STAGE THEN 0 ELSE StagingLoop(1, r, TRUE)

(* update_status with its elif chain written as independent ifs: a later test
   sees the status an earlier one has just set *)
UpdateStatusCallsCascading(s, t) ==
    LET s1 == IF s = "PRELAUNCH" THEN <<"LAUNCH">> ELSE <<>>
        a1 == IF s1 = <<>> THEN s ELSE "LAUNCH"
        s2 == IF a1 = "LAUNCH" THEN <<"LIFTOFF">> ELSE <<>>
        a2 == IF s2 = <<>> THEN a1 ELSE "LIFTOFF"
        s3 == IF a2 = "LIFTOFF" /\ t.alt > 100 /\ t.speed > 50
              THEN <<"PITCH">> ELSE <<>>
        a3 == IF s3 = <<>> THEN a2 ELSE "PITCH"
        s4 == IF a3 = "PITCH" /\ t.apo * 100 > ORBIT_ALT * 95
              THEN <<"COAST">> ELSE <<>>
        a4 == IF s4 = <<>> THEN a3 ELSE "COAST"
        s5 == IF a4 = "COAST" /\ s = "COAST" /\ t.time_to <= t.bt
              THEN <<"CIRCULARIZE">> ELSE <<>>
        a5 == IF s5 = <<>> THEN a4 ELSE "CIRCULARIZE"
        s6 == IF a5 = "CIRCULARIZE"
                 /\ (t.peri * 100 > ORBIT_ALT * 90 \/ t.apo * 100 > ORBIT_ALT * 110)
              THEN <<"FINALIZE">> ELSE <<>>
        a6 == IF s6 = <<>> THEN a5 ELSE "FINALIZE"
        s7 == IF a6 = "FINALIZE" THEN <<"DONE">> ELSE <<>>
    IN  s1 \o s2 \o s3 \o s4 \o s5 \o s6 \o s7

(* update_status that sends FINALIZE back to PRELAUNCH *)
UpdateStatusCallsRestart(s, t) ==
    IF s = "FINALIZE" THEN <<"PRELAUNCH">>
    ELSE IF s = "PRELAUNCH" THEN <<"LAUNCH">>
    ELSE IF s = "LAUNCH" THEN <<"LIFTOFF">>
    ELSE IF s = "LIFTOFF" /\ t.alt > 100 /\ t.speed > 50 THEN <<"PITCH">>
    ELSE IF s = "PITCH" /\ t.apo * 100 > ORBIT_ALT * 95 THEN <<"COAST">>
    ELSE IF s = "COAST" /\ t.time_to <= t.bt THEN <<"CIRCULARIZE">>
    ELSE IF s = "CIRCULARIZE"
            /\ (t.peri * 100 > ORBIT_ALT * 90 \/ t.apo * 100 > ORBIT_ALT * 110)
         THEN <<"FINALIZE">>
    ELSE <<>>

(* update_status that never leaves FINALIZE *)
UpdateStatusCallsNoDone(s, t) ==
    IF s = "PRELAUNCH" THEN <<"LAUNCH">>
    ELSE IF s = "LAUNCH" THEN <<"LIFTOFF">>
    ELSE IF s = "LIFTOFF" /\ t.alt > 100 /\ t.speed > 50 THEN <<"PITCH">>
    ELSE IF s = "PITCH" /\ t.apo * 100 > ORBIT_ALT * 95 THEN <<"COAST">>
    ELSE IF s = "COAST" /\ t.time_to <= t.bt THEN <<"CIRCULARIZE">>
    ELSE IF s = "CIRCULARIZE"
            /\ (t.peri * 100 > ORBIT_ALT * 90 \/ t.apo * 100 > ORBIT_ALT * 110)
         THEN <<"FINALIZE">>
    ELSE <<>>

(* update_status with the CIRCULARIZE test on the periapsis alone *)
UpdateStatusCallsPeriOnly(s, t) ==
    IF s = "PRELAUNCH" THEN <<"LAUNCH">>
    ELSE IF s = "LAUNCH" THEN <<"LIFTOFF">>
    ELSE IF s = "LIFTOFF" /\ t.alt > 100 /\ t.speed > 50 THEN <<"PITCH">>
    ELSE IF s = "PITCH" /\ t.apo * 100 > ORBIT_ALT * 95 THEN <<"COAST">>
    ELSE IF s = "COAST" /\ t.time_to <= t.bt THEN <<"CIRCULARIZE">>
    ELSE IF s = "CIRCULARIZE" /\ t.peri * 100 > ORBIT_ALT * 95 THEN <<"FINALIZE">>
    ELSE IF s = "FINALIZE" THEN <<"DONE">>
    ELSE <<>>

(* update_status that leaves COAST while the node is further than a burn away *)
UpdateStatusCallsEarlyBurn(s, t) ==
    IF s = "PRELAUNCH" THEN <<"LAUNCH">>
    ELSE IF s = "LAUNCH" THEN <<"LIFTOFF">>
    ELSE IF s = "LIFTOFF" /\ t.alt > 100 /\ t.speed > 50 THEN <<"PITCH">>
    ELSE IF s = "PITCH" /\ t.apo * 100 > ORBIT_ALT * 95 THEN <<"COAST">>
    ELSE IF s = "COAST" /\ t.time_to >= t.bt THEN <<"CIRCULARIZE">>
    ELSE IF s = "CIRCULARIZE"
            /\ (t.peri * 100 > ORBIT_ALT * 90 \/ t.apo * 100 > ORBIT_ALT * 110)
         THEN <<"FINALIZE">>
    ELSE IF s = "FINALIZE" THEN <<"DONE">>
    ELSE <<>>

(* ModularAscentControl.update_status, launch.py:194-244: the statuses it hands
   to set_status, in order, when the status is s and the vehicle reads t
   (alt, speed, apo, peri; in COAST the first node's time_to and the burn
   time bt) *)
UpdateStatusCalls(s, t) ==
    IF s = "PRELAUNCH" THEN <<"LAUNCH">>
    ELSE IF s = "LAUNCH" THEN <<"LIFTOFF">>
    ELSE IF s = "LIFTOFF"
         THEN (IF t.alt > 100 /\ t.speed > 50 THEN <<"PITCH">> ELSE <<>>)
    ELSE IF s = "PITCH"
         THEN (IF t.apo * 100 > ORBIT_ALT * 95 THEN <<"COAST">> ELSE <<>>)
    ELSE IF s = "COAST"
         THEN (IF t.time_to <= t.bt THEN <<"CIRCULARIZE">> ELSE <<>>)
    ELSE IF s = "CIRCULARIZE"
         THEN (IF t.peri * 100 > ORBIT_ALT * 90 \/ t.apo * 100 > ORBIT_ALT * 110
               THEN <<"FINALIZE">> ELSE <<>>)
    ELSE IF s = "FINALIZE" THEN <<"DONE">>
    ELSE <<>>

(* set_status that forgets the warp controller *)
PropagatedSkipWarp(old, s) == [r \in Roles |-> IF r = "warp" THEN old[r] ELSE s]

(* ModularAscentControl.set_status, launch.py:188-192, with
   Controller.set_status, launch.py:276-283, and GuidanceController.set_status,
   launch.py:382: the controllers' statuses after set_status(s) *)
Propagated(old, s) == [r \in Roles |-> s]

(* set_status of a guidance controller that also plans on CIRCULARIZE *)
CreatesNodeTwice(cls, s) ==
    cls = "GuidanceController" /\ s \in {"COAST", "CIRCULARIZE"}

(* set_status of a guidance controller that plans on CIRCULARIZE only *)
CreatesNodeLate(cls, s) ==
    cls = "GuidanceController" /\ s = "CIRCULARIZE"

(* GuidanceController.set_status, launch.py:375-384, against the base class's,
   launch.py:276-283: whether set_status(s) of an object of class cls calls
   create_circularize_node *)
CreatesNode(cls, s) == cls = "GuidanceController" /\ s = "COAST"

(* The roles, in set_status's order, whose set_status(s) plans a node *)
NodeCreators(s) == {r \in Roles : CreatesNode(ctrl[r], s)}

(* GuidanceController.process, launch.py:286-302, with target_node, prograde
   and stabilize, launch.py:340-356: the SAS mode it commands in status s
   ("keep": none) and whether it engages the autopilot (pitch, launch.py:321).
   In CIRCULARIZE target_node is tried first; whatever it raises, the bare
   except of launch.py:299 answers with prograde.  targetOk: target_node
   returned normally. *)
GuidanceCommand(s, targetOk) ==
    [mode |-> CASE s = "PRELAUNCH" -> "stability_assist"
                [] s \in {"COAST", "FINALIZE"} -> "prograde"
                [] s = "CIRCULARIZE" -> (IF targetOk THEN "manuever" ELSE "prograde")
                [] OTHER -> "keep",
     engage |-> s = "PITCH"]

(* to_orbit with staging and warp exchanged *)
NextPlaceSwapped(p) ==
    CASE p = "telemetry" -> "guidance"
      [] p = "guidance" -> "throttle"
      [] p = "throttle" -> "warp"
      [] p = "warp" -> "staging"
      [] p = "staging" -> "finalize"
      [] p = "finalize" -> "update"
      [] p = "update" -> "sleep"
      [] p = "sleep" -> "telemetry"

(* The body of to_orbit's loop, launch.py:164-171: the statement after p *)
NextPlace(p) ==
    CASE p = "telemetry" -> "guidance"
      [] p = "guidance" -> "throttle"
      [] p = "throttle" -> "staging"
      [] p = "staging" -> "warp"
      [] p = "warp" -> "finalize"
      [] p = "finalize" -> "update"
      [] p = "update" -> "sleep"
      [] p = "sleep" -> "telemetry"

(* Time passing by dt seconds, seen from the nodes *)
Elapse(ns, dt) ==
    [i \in 1..Len(ns) |-> [ns[i] EXCEPT !.time_to = Max(@ - dt, 0 - MaxLate)]]

----------------------------------------------------------------------------
(* The program *)

PlannedNode == [time_to |-> 40, delta_v |-> 300]

Init ==
    /\ pc = "init"
    /\ status = "IDLE"
    /\ cstatus = [r \in Roles |-> "IDLE"]
    /\ ctrl = DefaultControllers
    /\ regError = "none"
    /\ throttle \in ThrottleVals
    /\ nodes \in {<<>>, <<PlannedNode>>}
    /\ stage \in 0..MaxStage
    /\ physics_warp = 0
    /\ warped = FALSE
    /\ sas = FALSE
    /\ sas_mode = "stability_assist"
    /\ autopilot = FALSE
    /\ statusLog = <<>>
    /\ fault = "none"
    /\ faultPlace = "none"
    /\ extRemoved = FALSE
    /\ observed = [s \in Status |-> {}]
    /\ order = <<>>
    /\ acts = 0
    /\ stagedFrom = NoStaging
    /\ seen = NoReadings
    /\ initNodes = Len(nodes)
    /\ solar = FALSE
    /\ call = NoCall

(* What one call leaves for the next statement to see; cleared by the next *)
Transient(a, sf, w, rd) ==
    acts' = a /\ stagedFrom' = sf /\ warped' = w /\ seen' = rd

ClearTransient == Transient(0, NoStaging, FALSE, NoReadings)

(* An exception of the given kind leaves to_orbit: nothing catches it *)
Raise(kind) ==
    /\ pc' = "crashed"
    /\ fault' = kind
    /\ faultPlace' = pc

(* register_controller that tests the class before the name *)
RegistrationErrorClassFirst(name, cls) ==
    IF cls \notin ControllerClasses THEN "TypeError"
    ELSE IF name \notin Roles THEN "KeyError"
    ELSE "none"

(* register_controller's tests, launch.py:154-157: the exception it raises for
   the arguments, "none" when it goes on to replace the controller *)
RegistrationError(name, cls) ==
    IF name \notin Roles THEN "KeyError"
    ELSE IF cls \notin ControllerClasses THEN "TypeError"
    ELSE "none"

(* register_controller, launch.py:141-159, accepted *)
RegisterController(name, cls) ==
    /\ pc = "init"
    /\ RegistrationError(name, cls) = "none"
    /\ ctrl' = [ctrl EXCEPT ![name] = cls]
    /\ cstatus' = [cstatus EXCEPT ![name] = "IDLE"]
    /\ regError' = "none"
    /\ pc' = "configured"
    /\ call' = [fn |-> "register_controller", args |-> <<name, cls>>,
                out |-> Returned(0)]
    /\ UNCHANGED <<status, throttle, nodes, stage, physics_warp, warped, sas, sas_mode,
                   autopilot, statusLog, fault, faultPlace, extRemoved, observed, order,
                   acts, stagedFrom, seen, initNodes, solar>>

(* register_controller raising, launch.py:154-157: main does not catch it *)
RegisterControllerRejected(name, cls) ==
    /\ pc = "init"
    /\ RegistrationError(name, cls) # "none"
    /\ regError' = RegistrationError(name, cls)
    /\ pc' = "rejected"
    /\ call' = [fn |-> "register_controller", args |-> <<name, cls>>,
                out |-> Raised(RegistrationError(name, cls))]
    /\ UNCHANGED <<status, cstatus, ctrl, throttle, nodes, stage, physics_warp, warped,
                   sas, sas_mode, autopilot, statusLog, fault, faultPlace, extRemoved,
                   observed, order, acts, stagedFrom, seen, initNodes, solar>>

(* The nodes create_circularize_node calls add while set_status runs through
   the calls: one per controller whose set_status plans, per call *)
RECURSIVE CreatedCount(_)
CreatedCount(calls) ==
    IF calls = <<>> THEN 0
    ELSE Cardinality(NodeCreators(Head(calls))) + CreatedCount(Tail(calls))

(* set_status without its display_status call *)
SetStatusAllUnannounced(calls, n) ==
    /\ statusLog' = statusLog
    /\ status' = IF calls = <<>> THEN status ELSE Last(calls)
    /\ cstatus' = IF calls = <<>> THEN cstatus ELSE Propagated(cstatus, Last(calls))
    /\ nodes' = nodes \o [i \in 1..CreatedCount(calls) |-> n]

(* set_status, launch.py:179-192, for each of the calls in turn; n is the node
   create_circularize_node plans (launch.py:386-397) *)
SetStatusAll(calls, n) ==
    /\ statusLog' = statusLog \o calls
    /\ status' = IF calls = <<>> THEN status ELSE Last(calls)
    /\ cstatus' = IF calls = <<>> THEN cstatus ELSE Propagated(cstatus, Last(calls))
    /\ nodes' = nodes \o [i \in 1..CreatedCount(calls) |-> n]

(* to_orbit up to its loop, launch.py:161-163 *)
ToOrbit ==
    /\ pc \in {"init", "configured"}
    /\ SetStatusAll(<<"PRELAUNCH">>, PlannedNode)
    /\ pc' = "telemetry"
    /\ order' = <<>>
    /\ ClearTransient
    /\ UNCHANGED <<ctrl, regError, throttle, stage, physics_warp, sas, sas_mode,
                   autopilot, fault, faultPlace, extRemoved, observed, initNodes, solar, call>>

(* self.telemetry(), launch.py:164 and 173-177 *)
Telemetry ==
    /\ pc = "telemetry"
    /\ pc' = NextPlace(pc)
    /\ order' = <<>>
    /\ ClearTransient
    /\ UNCHANGED <<status, cstatus, ctrl, regError, throttle, nodes, stage, physics_warp,
                   sas, sas_mode, autopilot, statusLog, fault, faultPlace, extRemoved,
                   observed, initNodes, solar, call>>

(* The bookkeeping of one process() call returning, for the role at pc *)
Ran ==
    /\ pc' = NextPlace(pc)
    /\ order' = Append(order, pc)
    /\ observed' = [observed EXCEPT ![cstatus[pc]] = @ \cup {pc}]
    /\ UNCHANGED <<status, cstatus, ctrl, regError, statusLog, fault, faultPlace,
                   extRemoved, initNodes, solar, call>>

(* Controller.process, launch.py:268-274 *)
BaseProcess ==
    /\ pc \in Roles
    /\ ctrl[pc] = "Controller"
    /\ Ran
    /\ ClearTransient
    /\ UNCHANGED <<throttle, nodes, stage, physics_warp, sas, sas_mode, autopilot>>

(* GuidanceController.process, launch.py:286-302, with set_sas_mode,
   launch.py:327-338, and pitch's engage, launch.py:321.  target_node
   (launch.py:340-344) reads the member "manuever" of the vehicle's SAS modes
   and sets it: it raises when the vehicle has no node to hold, and, node or
   not, when the interface does not answer with such a mode. *)
GuidanceProcess ==
    /\ pc \in Roles
    /\ ctrl[pc] = "GuidanceController"
    /\ \E targetOk \in BOOLEAN :
          /\ targetOk => cstatus[pc] = "CIRCULARIZE" /\ nodes # <<>>
          /\ LET cmd == GuidanceCommand(cstatus[pc], targetOk)
             IN  /\ sas' = IF cmd.mode = "keep" THEN sas ELSE TRUE
                 /\ sas_mode' = IF cmd.mode = "keep" THEN sas_mode ELSE cmd.mode
                 /\ autopilot' = IF cmd.engage THEN TRUE
                                 ELSE IF cmd.mode # "keep" /\ ~sas THEN FALSE
                                 ELSE autopilot
    /\ IF cstatus[pc] = "PITCH"
       THEN \E alt \in AltVals :
               Transient(0, NoStaging, FALSE,
                         [NoReadings EXCEPT !.alt = alt,
                                            !.pitch = target_pitch(alt),
                                            !.heading = inc_to_heading(INCLINATION)])
       ELSE ClearTransient
    /\ Ran
    /\ UNCHANGED <<throttle, nodes, stage, physics_warp>>

(* ThrottleController.process that leaves the throttle alone in FINALIZE *)
ThrottleSettingNoCutoff(s, cur, time_to, bt) ==
    IF s = "PRELAUNCH" THEN 100
    ELSE IF s \in {"COAST", "DONE"} THEN 0
    ELSE IF s = "CIRCULARIZE" THEN (IF bt >= 2 * time_to THEN 100 ELSE 0)
    ELSE cur

(* ThrottleController.process that starts the burn a whole burn time early *)
ThrottleSettingWholeBurn(s, cur, time_to, bt) ==
    IF s = "PRELAUNCH" THEN 100
    ELSE IF s \in {"COAST", "FINALIZE", "DONE"} THEN 0
    ELSE IF s = "CIRCULARIZE" THEN (IF bt >= time_to THEN 100 ELSE 0)
    ELSE cur

(* ThrottleController.process, launch.py:400-416: the throttle it leaves, given
   the throttle cur, the first node's time_to and the burn time bt (both read
   only in CIRCULARIZE) *)
ThrottleSetting(s, cur, time_to, bt) ==
    IF s = "PRELAUNCH" THEN 100
    ELSE IF s \in {"COAST", "FINALIZE", "DONE"} THEN 0
    ELSE IF s = "CIRCULARIZE" THEN (IF bt >= 2 * time_to THEN 100 ELSE 0)
    ELSE cur

ThrottleProcess ==
    /\ pc \in Roles
    /\ ctrl[pc] = "ThrottleController"
    /\ IF cstatus[pc] = "CIRCULARIZE"
       THEN /\ nodes # <<>>
            /\ \E m \in MassVals, isp \in IspVals, F \in ThrustVals :
                  /\ BurnTimeDefined(isp, F)
                  /\ LET bt == BurnTime(m, isp, nodes[1].delta_v, F)
                     IN  /\ throttle' = ThrottleSetting(cstatus[pc], throttle,
                                                        nodes[1].time_to, bt)
                         /\ Transient(0, NoStaging, FALSE,
                                      [NoReadings EXCEPT !.bt = bt])
       ELSE /\ throttle' = ThrottleSetting(cstatus[pc], throttle, 0, 0)
            /\ ClearTransient
    /\ Ran
    /\ UNCHANGED <<nodes, stage, physics_warp, sas, sas_mode, autopilot>>

(* ThrottleController.calc_burn_time raising, launch.py:418-428: nodes[0] of no
   nodes, or a division by F = 0 *)
ThrottleBurnTimeFault ==
    /\ pc \in Roles
    /\ ctrl[pc] = "ThrottleController"
    /\ cstatus[pc] = "CIRCULARIZE"
    /\ \E F \in ThrustVals :
          /\ nodes = <<>> \/ F = 0
          /\ Raise(IF nodes = <<>> THEN "IndexError" ELSE "ZeroDivisionError")
    /\ ClearTransient
    /\ UNCHANGED <<status, cstatus, ctrl, regError, throttle, nodes, stage, physics_warp,
                   sas, sas_mode, autopilot, statusLog, extRemoved, observed, order,
                   initNodes, solar, call>>

(* AnnoyingThrottle.process, launch.py:431-439 *)
AnnoyingThrottleProcess ==
    /\ pc \in Roles
    /\ ctrl[pc] = "AnnoyingThrottle"
    /\ throttle' = IF cstatus[pc] \in {"PRELAUNCH", "CIRCULARIZE"} THEN 100
                   ELSE IF cstatus[pc] \in {"COAST", "FINALIZE", "DONE"} THEN 0
                   ELSE throttle
    /\ Ran
    /\ ClearTransient
    /\ UNCHANGED <<nodes, stage, physics_warp, sas, sas_mode, autopilot>>

(* StagingController.process, launch.py:443-459, with resource,
   launch.py:461-467 *)
StagingProcess ==
    /\ pc \in Roles
    /\ ctrl[pc] = "StagingController"
    /\ \E r \in ResStates :
          /\ stage <= MAX_AUTO_STAGE => r = NoStaging.res
          /\ Transient(StagingActivations(stage, r), [stage |-> stage, res |-> r], FALSE,
                       NoReadings)
          /\ stage' = stage - StagingActivations(stage, r)
    /\ Ran
    /\ UNCHANGED <<throttle, nodes, physics_warp, sas, sas_mode, autopilot>>

(* in_atmo with the comparison turned round *)
in_atmo_above(alt) == alt >= AtmosphereDepth

(* WarpController.in_atmo, launch.py:513-519 *)
in_atmo(alt) == alt <= AtmosphereDepth

(* WarpController.process, launch.py:488-499 *)
WarpProcess ==
    /\ pc \in Roles
    /\ ctrl[pc] = "WarpController"
    /\ IF cstatus[pc] = "COAST"
       THEN \E alt \in AltVals :
               IF in_atmo(alt)
               THEN /\ physics_warp' = MAX_PHYSICS_WARP
                    /\ Transient(0, NoStaging, FALSE, [NoReadings EXCEPT !.alt = alt])
                    /\ UNCHANGED nodes
               ELSE IF physics_warp > 0
               THEN /\ physics_warp' = 0
                    /\ nodes # <<>>
                    /\ \E m \in MassVals, isp \in IspVals, F \in ThrustVals :
                          /\ BurnTimeDefined(isp, F)
                          /\ LET bt == BurnTime(m, isp, nodes[1].delta_v, F)
                                 ahead == warp_target(nodes[1].time_to, bt)
                             IN  /\ nodes' = IF ahead > 0 THEN Elapse(nodes, ahead)
                                              ELSE nodes
                                 /\ Transient(0, NoStaging, TRUE,
                                              [NoReadings EXCEPT !.alt = alt, !.bt = bt,
                                                                 !.warp_to = ahead])
               ELSE /\ Transient(0, NoStaging, FALSE, [NoReadings EXCEPT !.alt = alt])
                    /\ UNCHANGED <<physics_warp, nodes>>
       ELSE /\ ClearTransient
            /\ UNCHANGED <<physics_warp, nodes>>
    /\ Ran
    /\ UNCHANGED <<throttle, stage, sas, sas_mode, autopilot>>

(* WarpController.calc_burn_time raising, launch.py:501-511, after
   physics_warp_factor = 0, launch.py:496 *)
WarpBurnTimeFault ==
    /\ pc \in Roles
    /\ ctrl[pc] = "WarpController"
    /\ cstatus[pc] = "COAST"
    /\ physics_warp > 0
    /\ \E alt \in AltVals, F \in ThrustVals :
          /\ ~in_atmo(alt)
          /\ nodes = <<>> \/ F = 0
          /\ Raise(IF nodes = <<>> THEN "IndexError" ELSE "ZeroDivisionError")
    /\ physics_warp' = 0
    /\ ClearTransient
    /\ UNCHANGED <<status, cstatus, ctrl, regError, throttle, nodes, stage, sas, sas_mode,
                   autopilot, statusLog, extRemoved, observed, order, initNodes, solar, call>>

(* A FinalizeController that does nothing *)
FinalizeNodesPass(s, ns) == ns

(* FinalizeController.process, launch.py:522-524: the nodes it leaves *)
FinalizeNodes(s, ns) == IF s = "FINALIZE" THEN <<>> ELSE ns

(* FinalizeController.process, launch.py:521-524 *)
FinalizeProcess ==
    /\ pc \in Roles
    /\ ctrl[pc] = "FinalizeController"
    /\ nodes' = FinalizeNodes(cstatus[pc], nodes)
    /\ Ran
    /\ ClearTransient
    /\ UNCHANGED <<throttle, stage, physics_warp, sas, sas_mode, autopilot>>

(* What update_status reads of the vehicle in status s, launch.py:216-238,
   but for the burn time of COAST *)
Readings(s) ==
    CASE s = "LIFTOFF" ->
           {[NoReadings EXCEPT !.alt = a, !.speed = v] : a \in AltVals, v \in SpeedVals}
      [] s = "PITCH" ->
           {[NoReadings EXCEPT !.apo = a] : a \in ApoVals}
      [] s = "CIRCULARIZE" ->
           {[NoReadings EXCEPT !.apo = a, !.peri = p] : a \in ApoVals, p \in PeriVals}
      [] OTHER -> {NoReadings}

(* What create_circularize_node reads of the orbit, launch.py:390-396 *)
OrbitReadings ==
    {[NoReadings EXCEPT !.apoapsis = r, !.sma = a, !.tta = t] :
        r \in ApoapsisVals, a \in SmaVals, t \in TtaVals}

(* create_circularize_node, launch.py:386-397: the node it adds for each
   reading of the orbit, ut + time_to_apoapsis kept relative to ut *)
NodePlan ==
    [o \in OrbitReadings |->
        [time_to |-> o.tta, delta_v |-> circularize_dv(MU, o.apoapsis, o.sma)]]

(* The readings rd of update_status as UpdateStatusCalls takes them *)
Telem(rd, time_to) ==
    [alt |-> rd.alt, speed |-> rd.speed, apo |-> rd.apo, peri |-> rd.peri,
     time_to |-> time_to, bt |-> rd.bt]

(* self.update_status(), launch.py:170 and 194-244 *)
UpdateStatus ==
    /\ pc = "update"
    /\ IF status = "COAST"
       THEN /\ nodes # <<>>
            /\ \E m \in MassVals, isp \in IspVals, F \in ThrustVals :
                  /\ BurnTimeDefined(isp, F)
                  /\ LET rd == [NoReadings EXCEPT
                                  !.bt = BurnTime(m, isp, nodes[1].delta_v, F)]
                     IN  /\ SetStatusAll(
                               UpdateStatusCalls(status, Telem(rd, nodes[1].time_to)),
                               PlannedNode)
                         /\ Transient(0, NoStaging, FALSE, rd)
       ELSE \E rd \in Readings(status) :
               LET calls == UpdateStatusCalls(status, Telem(rd, 0))
               IN  IF CreatedCount(calls) > 0
                   THEN \E o \in OrbitReadings :
                           /\ SetStatusAll(calls, NodePlan[o])
                           /\ Transient(0, NoStaging, FALSE,
                                  [rd EXCEPT !.apoapsis = o.apoapsis, !.sma = o.sma,
                                             !.tta = o.tta])
                   ELSE /\ SetStatusAll(calls, PlannedNode)
                        /\ Transient(0, NoStaging, FALSE, rd)
    /\ pc' = NextPlace(pc)
    /\ UNCHANGED <<ctrl, regError, throttle, stage, physics_warp, sas, sas_mode,
                   autopilot, fault, faultPlace, extRemoved, observed, order,
                   initNodes, solar, call>>

(* update_status raising in COAST, launch.py:230-231 and 246-256: nodes[0] of
   no nodes, or a division by F = 0 *)
UpdateBurnTimeFault ==
    /\ pc = "update"
    /\ status = "COAST"
    /\ \E F \in ThrustVals :
          /\ nodes = <<>> \/ F = 0
          /\ Raise(IF nodes = <<>> THEN "IndexError" ELSE "ZeroDivisionError")
    /\ ClearTransient
    /\ UNCHANGED <<status, cstatus, ctrl, regError, throttle, nodes, stage, physics_warp,
                   sas, sas_mode, autopilot, statusLog, extRemoved, observed, order,
                   initNodes, solar, call>>

(* add_node raising inside set_status(COAST), launch.py:186-188 and 397: the
   orchestrator and the guidance controller hold COAST, the rest do not *)
CreateNodeFault ==
    /\ pc = "update"
    /\ status = "PITCH"
    /\ CreatesNode(ctrl["guidance"], "COAST")
    /\ \E rd \in Readings(status) :
          UpdateStatusCalls(status, Telem(rd, 0)) = <<"COAST">>
    /\ statusLog' = Append(statusLog, "COAST")
    /\ status' = "COAST"
    /\ cstatus' = [cstatus EXCEPT !["guidance"] = "COAST"]
    /\ Raise("RPCError")
    /\ ClearTransient
    /\ UNCHANGED <<ctrl, regError, throttle, nodes, stage, physics_warp, sas, sas_mode,
                   autopilot, extRemoved, observed, order, initNodes, solar, call>>

(* Any other call of the vehicle interface raising, at a statement that makes
   one *)
InterfaceFault ==
    /\ pc \in TickPlaces \ {"sleep"}
    /\ pc \in Roles => ctrl[pc] # "Controller"
    /\ Raise("RPCError")
    /\ ClearTransient
    /\ UNCHANGED <<status, cstatus, ctrl, regError, throttle, nodes, stage, physics_warp,
                   sas, sas_mode, autopilot, statusLog, extRemoved, observed, order,
                   initNodes, solar, call>>

(* time.sleep and the loop test, launch.py:171 and 163 *)
Sleep ==
    /\ pc = "sleep"
    /\ \E dt \in DtVals : nodes' = Elapse(nodes, dt)
    /\ pc' = IF status = "DONE" THEN "exited" ELSE NextPlace(pc)
    /\ ClearTransient
    /\ UNCHANGED <<status, cstatus, ctrl, regError, throttle, stage, physics_warp, sas,
                   sas_mode, autopilot, statusLog, fault, faultPlace, extRemoved,
                   observed, order, initNodes, solar, call>>

(* The nodes removed in the game while the program sleeps, in the statuses
   whose statements read them *)
ExternalRemoveNodes ==
    /\ pc = "sleep"
    /\ status \in {"COAST", "CIRCULARIZE"}
    /\ nodes # <<>>
    /\ nodes' = <<>>
    /\ extRemoved' = TRUE
    /\ UNCHANGED <<pc, status, cstatus, ctrl, regError, throttle, stage, physics_warp,
                   warped, sas, sas_mode, autopilot, statusLog, fault, faultPlace,
                   observed, order, acts, stagedFrom, seen, initNodes, solar, call>>

Process ==
    \/ BaseProcess
    \/ GuidanceProcess
    \/ ThrottleProcess
    \/ AnnoyingThrottleProcess
    \/ StagingProcess
    \/ WarpProcess
    \/ FinalizeProcess

Faults ==
    \/ ThrottleBurnTimeFault
    \/ WarpBurnTimeFault
    \/ UpdateBurnTimeFault
    \/ CreateNodeFault
    \/ InterfaceFault

Register ==
    \E name \in NameArgs, cls \in ClassArgs :
        \/ RegisterController(name, cls)
        \/ RegisterControllerRejected(name, cls)

Next ==
    \/ Register
    \/ ToOrbit
    \/ Telemetry
    \/ Process
    \/ UpdateStatus
    \/ Sleep
    \/ ExternalRemoveNodes
    \/ Faults

Spec == Init /\ [][Next]_vars

(* The run whose telemetry satisfies each phase's exit test again and again:
   every enabled statement is eventually run, and the update that advances the
   phase is taken if it is possible in tick after tick *)
Advance == UpdateStatus /\ status' # status

FairSpec == Spec /\ WF_vars(Next) /\ SF_vars(Advance)

----------------------------------------------------------------------------
(* The functions called on their own *)

\* inclinations tried, in whole degrees, to either side of 0
MaxInc == 200
\* steps of the altitude from 0 to GRAV_TURN_FINISH
MaxAltSteps == 11
\* steps of 100 m/s of the node's delta-v
MaxDvSteps == 6

IncArgs == (0 - MaxInc)..MaxInc

PitchAlts == {(a * GRAV_TURN_FINISH) \div MaxAltSteps : a \in 0..MaxAltSteps}

DvArgs == {d * 100 : d \in 0..MaxDvSteps}

(* calc_burn_time, launch.py:246-256, as a call: what it returns or raises for
   the mass m, the specific impulse isp, the node's delta-v dv and the
   available thrust F *)
calc_burn_time(m, isp, dv, F) ==
    IF BurnTimeDefined(isp, F) THEN Returned(BurnTime(m, isp, dv, F))
    ELSE Raised("ZeroDivisionError")

(* The calls made: of inc_to_heading with an inclination, of pitch at a mean
   altitude, of calc_burn_time with the vehicle's and the node's figures *)
PureCalls ==
    {[fn |-> "inc_to_heading", args |-> <<inc>>, out |-> Pending] : inc \in IncArgs}
    \cup {[fn |-> "pitch", args |-> <<alt>>, out |-> Pending] : alt \in PitchAlts}
    \cup {[fn |-> "calc_burn_time", args |-> <<m, isp, dv, F>>, out |-> Pending] :
             m \in MassVals, isp \in IspVals, dv \in DvArgs, F \in ThrustVals}

\* everything but the call: the object as constructed, which the calls leave alone
objVars == <<pc, status, cstatus, ctrl, regError, throttle, nodes, stage, physics_warp,
             warped, sas, sas_mode, autopilot, statusLog, fault, faultPlace, extRemoved,
             observed, order, acts, stagedFrom, seen, initNodes, solar>>

PureInit ==
    /\ pc = "call"
    /\ status = "IDLE"
    /\ cstatus = [r \in Roles |-> "IDLE"]
    /\ ctrl = DefaultControllers
    /\ regError = "none"
    /\ throttle = 0
    /\ nodes = <<>>
    /\ stage = 0
    /\ physics_warp = 0
    /\ warped = FALSE
    /\ sas = FALSE
    /\ sas_mode = "stability_assist"
    /\ autopilot = FALSE
    /\ statusLog = <<>>
    /\ fault = "none"
    /\ faultPlace = "none"
    /\ extRemoved = FALSE
    /\ observed = [s \in Status |-> {}]
    /\ order = <<>>
    /\ acts = 0
    /\ stagedFrom = NoStaging
    /\ seen = NoReadings
    /\ initNodes = 0
    /\ solar = FALSE
    /\ call \in PureCalls

(* inc_to_heading(inc), launch.py:358-373 *)
CallIncToHeading ==
    /\ pc = "call"
    /\ call.fn = "inc_to_heading"
    /\ ~call.out.done
    /\ call' = [call EXCEPT !.out = Returned(inc_to_heading(call.args[1]))]
    /\ UNCHANGED objVars

(* pitch(), launch.py:311-322, at the altitude of the call, and again at any
   other: the target pitch it sets *)
CallPitch ==
    /\ pc = "call"
    /\ call.fn = "pitch"
    /\ \E alt \in PitchAlts :
          /\ call.out.done \/ alt = call.args[1]
          /\ call' = [fn |-> "pitch", args |-> <<alt>>,
                      out |-> Returned(target_pitch(alt))]
    /\ UNCHANGED objVars

(* calc_burn_time(), launch.py:246-256, for the node of the call, and again
   for a node of any other delta-v *)
CallCalcBurnTime ==
    /\ pc = "call"
    /\ call.fn = "calc_burn_time"
    /\ \E dv \in DvArgs :
          /\ call.out.done \/ dv = call.args[3]
          /\ call' = [fn |-> "calc_burn_time",
                      args |-> [call.args EXCEPT ![3] = dv],
                      out |-> calc_burn_time(call.args[1], call.args[2], dv,
                                             call.args[4])]
    /\ UNCHANGED objVars

PureNext ==
    \/ CallIncToHeading
    \/ CallPitch
    \/ CallCalcBurnTime

PureSpec == PureInit /\ [][PureNext]_vars

----------------------------------------------------------------------------
(* Properties *)

Halted == pc \in {"exited", "crashed"}

CrashReported == \E i \in 1..Len(statusLog) : statusLog[i] \notin Status

(* C1: when an exception ends the loop during a tick, the throttle is 0 and a
   crash status has been handed to the status sink. *)
FaultCutsThrottle == pc = "crashed" => throttle = 0 /\ CrashReported

(* C2: the phase never moves to an earlier one in the order IDLE, PRELAUNCH,
   LAUNCH, LIFTOFF, PITCH, COAST, CIRCULARIZE, FINALIZE, DONE. *)
PhaseMonotonic == [][StatusValue(status') >= StatusValue(status)]_vars

PhaseAdvanced == status = "CIRCULARIZE" /\ Len(statusLog) = 6

(* C3: a started run whose telemetry keeps satisfying the exit tests ends, in
   DONE or by a fault, and the loop is left without a fault only in DONE. *)
RunsToCompletion ==
    /\ (pc \in TickPlaces) ~> Halted
    /\ [](pc = "exited" => status = "DONE" /\ fault = "none")

RunCompleted == pc = "exited" /\ status = "DONE"

(* C4: once set_status(p) has returned, at every place of the loop, the
   orchestrator and the five controllers bound to the roles, substituted ones
   included, hold p, and p is the last status handed to the status sink. *)
SetStatusPropagates ==
    pc \in TickPlaces =>
        /\ \A r \in Roles : cstatus[r] = status
        /\ statusLog # <<>>
        /\ Last(statusLog) = status

SubstitutedHoldsPhase ==
    /\ pc = "guidance"
    /\ status = "COAST"
    /\ ctrl["warp"] = "Controller"
    /\ cstatus["warp"] = "COAST"

(* C5: one step of the loop hands at most one status to set_status, and every
   phase from PRELAUNCH on that the run has left was held by all five
   controllers while their process() ran. *)
EachPhaseObserved ==
    /\ [][Len(statusLog') <= Len(statusLog) + 1]_vars
    /\ [](\A s \in Status :
             StatusValue(s) >= 10 /\ StatusValue(s) < StatusValue(status)
                 => observed[s] = Roles)

AllPhasesObserved == status = "DONE" /\ observed["FINALIZE"] = Roles

(* C6: within a tick the process() calls run in the order guidance, throttle,
   staging, warp, finalize, and update_status runs after all five. *)
ControllerOrder ==
    /\ Len(order) <= Len(controllers)
    /\ \A i \in 1..Len(order) : order[i] = controllers[i]
    /\ pc \in {"update", "sleep"} => order = controllers

AllFiveRan == pc = "update" /\ order = controllers /\ status = "PITCH"

(* C7: a burn-time computation that finds no maneuver node, or an available
   thrust of 0, does not end the loop (stated of the run of the five
   controllers __init__ binds). *)
BurnTimeGuarded ==
    ~(/\ ctrl = DefaultControllers
      /\ pc = "crashed"
      /\ fault \in {"IndexError", "ZeroDivisionError"})

(* C8: when a GuidanceController runs process() in CIRCULARIZE and the call
   returns, it has commanded the maneuver-node hold if a node is available
   and the prograde hold if none is. *)
CircularizeHold ==
    [][(/\ pc \in Roles
        /\ ctrl[pc] = "GuidanceController"
        /\ cstatus[pc] = "CIRCULARIZE"
        /\ pc' # "crashed")
       => sas_mode' = IF nodes # <<>> THEN "manuever" ELSE "prograde"]_vars

(* The roles bound to a GuidanceController *)
GuidanceRoles == {r \in Roles : ctrl[r] = "GuidanceController"}

(* C9: in a run started with no maneuver nodes, where no role but guidance is
   bound to a GuidanceController, at most one node exists at any time, and a
   node is added only by set_status(COAST), one per GuidanceController. *)
OneNode ==
    /\ [](initNodes = 0 /\ GuidanceRoles \subseteq {"guidance"} => Len(nodes) <= 1)
    /\ [][Len(nodes') > Len(nodes)
            => /\ pc = "update"
               /\ status = "PITCH"
               /\ status' = "COAST"
               /\ Len(nodes') = Len(nodes) + Cardinality(GuidanceRoles)]_vars

NodePlanned ==
    /\ initNodes = 0
    /\ ctrl = DefaultControllers
    /\ status = "COAST"
    /\ Len(nodes) = 1
    /\ ~extRemoved

(* What the last staging call read *)
Exhausted(r) == \E f \in FuelNames : r[f].max > 0 /\ r[f].amount = 0

Interstage(r) == \A f \in FuelNames : r[f].max = 0

(* C10: a StagingController.process() call made above the auto-stage floor
   activates exactly one stage if the decouple stage has capacity for a
   tracked fuel whose amount is 0 or has capacity for no tracked fuel, and
   none if every fuel it carries is left; no call activates more than one. *)
StagingOnce ==
    stagedFrom.stage > MAX_AUTO_STAGE =>
        /\ acts = IF Exhausted(stagedFrom.res) \/ Interstage(stagedFrom.res)
                  THEN 1 ELSE 0
        /\ acts <= 1
        /\ stage = stagedFrom.stage - acts

SolidStageDropped ==
    /\ stagedFrom.stage > MAX_AUTO_STAGE
    /\ stagedFrom.res["LiquidFuel"].max = 0
    /\ stagedFrom.res["SolidFuel"] = [max |-> 1, amount |-> 0]
    /\ acts = 1

(* C11: a StagingController's process() at or below the floor MAX_AUTO_STAGE
   activates no stage, in any status; and the stage, which starts at or above
   the floor, never falls below it. *)
StagingFloor ==
    /\ [](stage >= MAX_AUTO_STAGE)
    /\ [][(/\ pc \in Roles
            /\ ctrl[pc] = "StagingController"
            /\ stage <= MAX_AUTO_STAGE)
           => stage' = stage /\ (pc' # "crashed" => acts' = 0)]_vars

\* a staging process() ran at the floor, after the ascent's first phases
FloorHeld ==
    /\ stagedFrom.stage = MAX_AUTO_STAGE
    /\ stage = MAX_AUTO_STAGE
    /\ acts = 0
    /\ status \in {"PITCH", "COAST", "CIRCULARIZE", "FINALIZE"}

(* C12: one StagingController.process() in CIRCULARIZE with the stage at
   MAX_AUTO_STAGE + 3 leaves the stage at exactly MAX_AUTO_STAGE + 1 and the
   throttle at the value it had before. *)
DebrisCleanup ==
    [][(/\ pc \in Roles
        /\ ctrl[pc] = "StagingController"
        /\ cstatus[pc] = "CIRCULARIZE"
        /\ stage = MAX_AUTO_STAGE + 3
        /\ pc' # "crashed")
       => stage' = MAX_AUTO_STAGE + 1 /\ throttle' = throttle]_vars

(* C13: a ThrottleController's process() leaves the throttle at 1.0 in
   PRELAUNCH and at 0.0 in COAST and in FINALIZE; and a run with the
   ThrottleController in the throttle role that ends in DONE ends with the
   throttle at 0. *)
ThrottleByPhase ==
    /\ [][(/\ pc \in Roles
            /\ ctrl[pc] = "ThrottleController"
            /\ pc' # "crashed")
           => /\ cstatus[pc] = "PRELAUNCH" => throttle' = 100
              /\ cstatus[pc] \in {"COAST", "FINALIZE"} => throttle' = 0]_vars
    /\ [](/\ ctrl["throttle"] = "ThrottleController"
           /\ status = "DONE"
           /\ pc \in {"sleep", "exited"}
          => throttle = 0)

EndedEngineOff ==
    /\ pc = "exited"
    /\ status = "DONE"
    /\ ctrl = DefaultControllers
    /\ throttle = 0

(* C14: in CIRCULARIZE a ThrottleController's process() leaves the throttle at
   1.0 if half the burn time it computed reaches the node's time (the node is
   no further away than bt / 2), and at 0 otherwise. *)
BurnAtMidpoint ==
    [][(/\ pc \in Roles
        /\ ctrl[pc] = "ThrottleController"
        /\ cstatus[pc] = "CIRCULARIZE"
        /\ pc' # "crashed")
       => /\ seen'.bt >= 0
          /\ throttle' = IF 2 * nodes[1].time_to - seen'.bt <= 0 THEN 100 ELSE 0]_vars

\* the throttle held at 0 in CIRCULARIZE, the node being nearer than the burn
\* time but further than half of it
BurnHeld ==
    /\ pc = "staging"
    /\ ctrl = DefaultControllers
    /\ status = "CIRCULARIZE"
    /\ nodes # <<>>
    /\ seen.bt >= nodes[1].time_to
    /\ seen.bt < 2 * nodes[1].time_to
    /\ throttle = 0

Abs(x) == IF x < 0 THEN 0 - x ELSE x

(* The vis-viva speeds in m/s at the radius r (km) of an orbit of semi-major
   axis a (km) around a body of gravitational parameter mu: on a circle,
   sqrt(mu / r); in general sqrt(mu * (2 / r - 1 / a)) *)
CircularSpeed(mu, r) == Sqrt((mu \div r) * 1000)

SpeedAt(mu, r, a) == Sqrt(((mu * (2 * a - r)) \div (r * a)) * 1000)

(* C15: update_status in PITCH ends in COAST if the apoapsis altitude it read
   exceeds 0.95 * ORBIT_ALT and in PITCH if not; entering COAST with one
   GuidanceController, in the guidance role, adds one node, at the time to
   apoapsis read, whose delta-v is the circular speed at the apoapsis less the
   orbit's speed there, to the metre per second. *)
PitchToCoast ==
    [][(pc = "update" /\ status = "PITCH" /\ pc' # "crashed")
       => /\ status' = IF seen'.apo * 100 > ORBIT_ALT * 95 THEN "COAST" ELSE "PITCH"
          /\ status' = "PITCH" => nodes' = nodes
          /\ (status' = "COAST" /\ GuidanceRoles = {"guidance"})
               => /\ Len(nodes') = Len(nodes) + 1
                  /\ Last(nodes').time_to = seen'.tta
                  /\ Abs(Last(nodes').delta_v
                         - (CircularSpeed(MU, seen'.apoapsis)
                            - SpeedAt(MU, seen'.apoapsis, seen'.sma))) <= 1]_vars

CoastEntered ==
    /\ pc = "sleep"
    /\ status = "COAST"
    /\ ctrl = DefaultControllers
    /\ initNodes = 0
    /\ seen.apo = 110000
    /\ Len(nodes) = 1
    /\ nodes[1].delta_v > 0

(* C16: update_status in CIRCULARIZE ends in FINALIZE if the periapsis altitude
   it read exceeds 0.90 * ORBIT_ALT or the apoapsis altitude exceeds
   1.10 * ORBIT_ALT, and in CIRCULARIZE if neither does. *)
CircularizeToFinalize ==
    [][(pc = "update" /\ status = "CIRCULARIZE" /\ pc' # "crashed")
       => status' = IF \/ 10 * seen'.peri > 9 * ORBIT_ALT
                       \/ 10 * seen'.apo > 11 * ORBIT_ALT
                    THEN "FINALIZE" ELSE "CIRCULARIZE"]_vars

\* the burn ended by the apoapsis alone
ApoapsisBallooned ==
    /\ pc = "sleep"
    /\ status = "FINALIZE"
    /\ 10 * seen.apo > 11 * ORBIT_ALT
    /\ 10 * seen.peri <= 9 * ORBIT_ALT

(* C17: update_status in COAST ends in CIRCULARIZE if the first node's time_to
   is at most the burn time it computed, and in COAST if it is more. *)
CoastToCircularize ==
    [][(pc = "update" /\ status = "COAST" /\ pc' # "crashed")
       => /\ seen'.bt >= 0
          /\ status' = IF nodes[1].time_to - seen'.bt > 0
                       THEN "COAST" ELSE "CIRCULARIZE"]_vars

\* a tick that stayed in COAST, the node being further away than the burn time
CoastHeld ==
    /\ pc = "sleep"
    /\ status = "COAST"
    /\ seen.bt >= 0
    /\ nodes # <<>>
    /\ nodes[1].time_to > seen.bt

(* C18: with the FinalizeController in the finalize role, no maneuver node is
   left once the status is DONE: its process() removed them in FINALIZE. *)
NodeCleared ==
    /\ [](ctrl["finalize"] = "FinalizeController" /\ status = "DONE" => nodes = <<>>)
    /\ [][(/\ pc \in Roles
            /\ ctrl[pc] = "FinalizeController"
            /\ pc' # "crashed")
           => nodes' = IF cstatus[pc] = "FINALIZE" THEN <<>> ELSE nodes]_vars

\* the finalize controller's process() has just removed a node
NodeRemoved ==
    /\ pc = "update"
    /\ status = "FINALIZE"
    /\ ctrl = DefaultControllers
    /\ nodes = <<>>
    /\ ~extRemoved
    /\ observed["FINALIZE"] = Roles

(* C19: with DEPLOY_SOLAR set, a run that reaches DONE has deployed the solar
   panels. *)
SolarDeployed == DEPLOY_SOLAR /\ status = "DONE" => solar

(* C20: a WarpController's process() in COAST that reads a mean altitude of at
   most the atmosphere's depth leaves the physics warp at MAX_PHYSICS_WARP;
   in any other status it changes neither the physics warp nor asks for a
   warp on rails. *)
WarpInAtmosphere ==
    [][(pc \in Roles /\ ctrl[pc] = "WarpController")
       => /\ (/\ cstatus[pc] = "COAST"
               /\ pc' # "crashed"
               /\ seen'.alt <= AtmosphereDepth)
              => physics_warp' = MAX_PHYSICS_WARP /\ ~warped'
          /\ cstatus[pc] # "COAST"
              => physics_warp' = physics_warp /\ ~warped']_vars

\* physics warp engaged at the edge of the atmosphere
WarpEngaged ==
    /\ pc = "finalize"
    /\ status = "COAST"
    /\ ctrl = DefaultControllers
    /\ seen.alt = AtmosphereDepth
    /\ physics_warp = MAX_PHYSICS_WARP

(* C21: a warp controller's tick in COAST above the atmosphere: with physics
   warp on it turns physics warp off and warps on rails to five seconds
   before the node's time less half the burn time, strictly earlier than the
   time the throttle opens (the node's time less half the burn time); with
   physics warp already off it asks for no warp on rails *)
WarpToNode ==
    [][(/\ pc \in Roles
        /\ ctrl[pc] = "WarpController"
        /\ cstatus[pc] = "COAST"
        /\ pc' # "crashed"
        /\ seen'.alt > AtmosphereDepth)
       => /\ physics_warp' = 0
          /\ warped' = (physics_warp > 0)
          /\ warped' =>
                /\ 2 * seen'.warp_to + 10 \in
                      {2 * nodes[1].time_to - seen'.bt,
                       2 * nodes[1].time_to - seen'.bt + 1}
                /\ 2 * seen'.warp_to < 2 * nodes[1].time_to - seen'.bt]_vars

\* physics warp given up for a warp on rails to the node
WarpedToNode ==
    /\ warped
    /\ physics_warp = 0
    /\ status = "COAST"
    /\ seen.alt > AtmosphereDepth
    /\ seen.bt > 0
    /\ ctrl = DefaultControllers

(* C26: register_controller raises KeyError for a name that is not a role and
   TypeError for a class that is not a Controller, the name tested first, and
   only before to_orbit's loop; a call that raises leaves all five roles as
   they were, and a call that returns replaces the named role's controller
   and no other *)
RegistrationChecked ==
    [][(pc = "init" /\ pc' \in {"configured", "rejected"})
       => LET name == call'.args[1]
              cls == call'.args[2]
              err == call'.out.err
          IN  /\ call'.fn = "register_controller"
              /\ status = "IDLE" /\ statusLog = <<>> /\ order = <<>>
              /\ name \notin Roles => err = "KeyError"
              /\ (name \in Roles /\ cls \notin ControllerClasses) => err = "TypeError"
              /\ err # "none" =>
                    /\ pc' = "rejected"
                    /\ regError' = err
                    /\ ctrl' = ctrl
                    /\ cstatus' = cstatus
              /\ (name \in Roles /\ cls \in ControllerClasses) =>
                    /\ err = "none"
                    /\ pc' = "configured"
                    /\ ctrl'[name] = cls
                    /\ \A r \in Roles \ {name} : ctrl'[r] = ctrl[r]]_vars

\* a class that is no Controller offered for a role that is not one
BothArgumentsBad ==
    /\ pc = "rejected"
    /\ call.fn = "register_controller"
    /\ call.args = <<"autopilot", "Display">>
    /\ call.out.err = "KeyError"
    /\ ctrl = DefaultControllers

(* C27: on every PITCH tick of the guidance controller the target pitch lies
   between 0 and 90 degrees, and at a mean altitude of GRAV_TURN_FINISH or
   more it is 0 *)
PitchStaysDown ==
    [][(/\ pc = "guidance"
        /\ ctrl[pc] = "GuidanceController"
        /\ cstatus[pc] = "PITCH"
        /\ pc' # "crashed")
       => /\ seen'.pitch >= 0
          /\ seen'.pitch <= 90000
          /\ seen'.alt >= GRAV_TURN_FINISH => seen'.pitch = 0]_vars

(* C28: every change of the status goes to the status that follows it in the
   enumeration, none skipped; the status sink is told of each change once, in
   the order of the changes, and of nothing else; and a controller is given a
   status only after the sink was told of it *)
PhaseBySuccessor ==
    [][/\ status' # status
          => /\ StatusValue(status') = StatusValue(status) + 10
             /\ statusLog' = Append(statusLog, status')
       /\ status' = status => statusLog' = statusLog
       /\ \A r \in Roles :
             cstatus'[r] # cstatus[r]
             => /\ statusLog' # <<>>
                /\ cstatus'[r] = Last(statusLog')
                /\ cstatus'[r] = status']_vars

\* set_status(COAST) cut short by add_node: the sink was told, the guidance
\* controller given COAST, the others not yet
SinkToldFirst ==
    /\ pc = "crashed"
    /\ faultPlace = "update"
    /\ status = "COAST"
    /\ statusLog = <<"PRELAUNCH", "LAUNCH", "LIFTOFF", "PITCH", "COAST">>
    /\ cstatus["guidance"] = "COAST"
    /\ cstatus["throttle"] = "PITCH"

(* C29: with the controllers main builds, the physics warp is 0 whenever the
   status is CIRCULARIZE, FINALIZE or DONE *)
NoPhysicsWarpAfterCoast ==
    (ctrl = DefaultControllers /\ status \in {"CIRCULARIZE", "FINALIZE", "DONE"})
        => physics_warp = 0

(* C30: in a run started with no node, with a GuidanceController for guidance
   and no node removed from outside, there is a node wherever nodes[0] is
   read in COAST or CIRCULARIZE, so that no read raises IndexError, and the
   nodes are emptied by the finalize controller's process() in FINALIZE
   only *)
NodeWhereRead ==
    [][(initNodes = 0 /\ ~extRemoved' /\ ctrl'["guidance"] = "GuidanceController")
       => /\ fault' # "IndexError"
          /\ (status' \in {"COAST", "CIRCULARIZE"} /\ pc' \in TickPlaces)
                => nodes' # <<>>
          /\ (nodes # <<>> /\ nodes' = <<>>)
                => pc = "finalize" /\ cstatus[pc] = "FINALIZE"]_vars

\* the throttle controller has read the node of the run's own making
OwnNodeRead ==
    /\ initNodes = 0
    /\ ~extRemoved
    /\ ctrl = DefaultControllers
    /\ status = "CIRCULARIZE"
    /\ pc = "staging"
    /\ seen.bt >= 0
    /\ Len(nodes) = 1

(* C22: inc_to_heading(0) = 90, inc_to_heading(90) = 0, inc_to_heading(-90) =
   180, inc_to_heading(200) = 90 as for every inclination outside -180..180,
   and every result lies in 0..359 *)
HeadingTable ==
    (call.fn = "inc_to_heading" /\ call.out.done)
        => LET inc == call.args[1]
               heading == call.out.val
           IN  /\ call.out.err = "none"
               /\ inc = 0 => heading = 90
               /\ inc = 90 => heading = 0
               /\ inc = -90 => heading = 180
               /\ inc = 200 => heading = 90
               /\ (inc > 180 \/ inc < -180) => heading = 90
               /\ heading >= 0
               /\ heading < 360

\* an inclination whose heading wraps round north
HeadingWrapped ==
    /\ call.fn = "inc_to_heading"
    /\ call.out.done
    /\ call.args = <<135>>
    /\ call.out.val = 315

(* C23 as stated: for an inclination in -180..180 the heading is 90 - inc for
   inc >= 0 and 90 + inc for inc < 0, each brought into 0..359 *)
HeadingBySign ==
    (call.fn = "inc_to_heading" /\ call.out.done
        /\ call.args[1] >= -180 /\ call.args[1] <= 180)
        => LET inc == call.args[1]
           IN  call.out.val = (IF inc >= 0 THEN 90 - inc ELSE 90 + inc) % 360

(* C23: for an inclination in -180..180 the heading is 90 - inc brought into
   0..359: 90 - inc for inc >= 0 and 90 + |inc| for inc < 0 *)
HeadingFromEast ==
    (call.fn = "inc_to_heading" /\ call.out.done
        /\ call.args[1] >= -180 /\ call.args[1] <= 180)
        => LET inc == call.args[1]
           IN  /\ call.out.val = (90 - inc) % 360
               /\ inc < 0 => call.out.val = 90 + Abs(inc)

\* a negative inclination turned to the far side of east
NegativeInclination ==
    /\ call.fn = "inc_to_heading"
    /\ call.out.done
    /\ call.args = <<-45>>
    /\ call.out.val = 135

(* C24: the target pitch is 90 degrees at a mean altitude of 0 and 0 at
   GRAV_TURN_FINISH, and of two altitudes from 0 to GRAV_TURN_FINISH the
   higher has the strictly smaller target pitch *)
PitchEasing ==
    [][(call'.fn = "pitch" /\ call'.out.done)
       => /\ call'.args[1] = 0 => call'.out.val = 90000
          /\ call'.args[1] = GRAV_TURN_FINISH => call'.out.val = 0
          /\ (/\ call.out.done
              /\ call.args[1] < call'.args[1]
              /\ call'.args[1] <= GRAV_TURN_FINISH)
             => call'.out.val < call.out.val]_vars

\* the turn finished
PitchedOver ==
    /\ call.fn = "pitch"
    /\ call.out.done
    /\ call.args = <<GRAV_TURN_FINISH>>
    /\ call.out.val = 0

(* C25: calc_burn_time returns, and returns no negative burn time, whatever
   the thrust and the specific impulse; of two nodes the one of the greater
   delta-v has the longer burn *)
BurnTimeNeverNegative ==
    [][(call'.fn = "calc_burn_time" /\ call'.out.done)
       => /\ call'.out.err = "none"
          /\ call'.out.val >= 0
          /\ (call.out.done /\ call.args[3] < call'.args[3])
             => call'.out.val > call.out.val]_vars

(* C31: with the controllers main builds, a throttle the ThrottleController
   has opened on a CIRCULARIZE tick is still open after every later
   CIRCULARIZE tick of it, whatever mass, thrust and specific impulse it
   reads: the burn is not interrupted *)
BurnUninterrupted ==
    [][(/\ pc = "throttle"
        /\ ctrl = DefaultControllers
        /\ cstatus[pc] = "CIRCULARIZE"
        /\ throttle = 100
        /\ pc' # "crashed")
       => throttle' = 100]_vars

====
